---- MODULE Spec2Model ----
(***************************************************************************)
(* Model of the consent store and the aggregation engine of src/api.py.   *)
(*                                                                         *)
(* Strings are sequences of tokens: a token is either the delimiter "_"   *)
(* or a maximal run of other characters, so f"{a}_{b}" is                  *)
(* a \o <<"_">> \o b and two strings are equal exactly when their token    *)
(* sequences are.  Python dicts are insertion-ordered association lists    *)
(* (sequences of [key, val] records).  Cyrillic literals of the source are *)
(* written as ASCII transliterations.  Amounts are integers (every amount  *)
(* of client_profiles_db is integral); a value rounded to two decimals is  *)
(* carried as an integer number of hundredths.                             *)
(***************************************************************************)
EXTENDS Integers, Sequences, FiniteSets, TLC

VARIABLES consents_db, aggregated_data_db, clock, resp

vars == <<consents_db, aggregated_data_db, clock, resp>>

\* Number of handler calls that read datetime.now() in one behaviour.
MaxClock == 2

US == <<"_">>

None == "None"

Range(s) == {s[i] : i \in 1..Len(s)}

(***************************************************************************)
(* Python dict: insertion-ordered; assignment to a stored key keeps its   *)
(* position, assignment to a new key appends, del removes the entry.       *)
(***************************************************************************)
DictKeys(d) == {d[i].key : i \in 1..Len(d)}

DictHas(d, k) == k \in DictKeys(d)

DictGet(d, k) == d[CHOOSE i \in 1..Len(d) : d[i].key = k].val

DictSet_Append(d, k, v) == Append(d, [key |-> k, val |-> v])

DictSet_KeepOld(d, k, v) ==
    IF DictHas(d, k) THEN d ELSE Append(d, [key |-> k, val |-> v])

DictSet(d, k, v) ==
    IF DictHas(d, k)
    THEN [i \in 1..Len(d) |-> IF d[i].key = k THEN [key |-> k, val |-> v] ELSE d[i]]
    ELSE Append(d, [key |-> k, val |-> v])

DictDel_SameClient(d, k) == SelectSeq(d, LAMBDA e : SubSeq(e.key, 1, 3) # SubSeq(k, 1, 3))

DictDel(d, k) == SelectSeq(d, LAMBDA e : e.key # k)

DictValues(d) == [i \in 1..Len(d) |-> d[i].val]

(***************************************************************************)
(* Reference data, src/api.py:56-122                                       *)
(***************************************************************************)
Txn(i, a, c, d, m) == [id |-> i, amount |-> a, category |-> c, date |-> d, merchant |-> m]

client_1 == <<"client", "_", "1">>
client_2 == <<"client", "_", "2">>
client_3 == <<"client", "_", "3">>

client_profiles_db ==
    (client_1 :> [client_id |-> client_1, client_name |-> "Ivan Petrov",
                  age_group |-> "25-35", city |-> "Moskva", total_balance |-> 150000,
                  transactions |-> <<
                      Txn("t1", 2500, "Restorany", "2024-01-15", "Restoran Vkusno"),
                      Txn("t2", 5000, "Supermarkety", "2024-01-14", "Pyaterochka"),
                      Txn("t3", 12000, "Elektronika", "2024-01-10", "M.Video"),
                      Txn("t4", 3500, "Transport", "2024-01-08", "Yandex.Taxi"),
                      Txn("t5", 8000, "Razvlecheniya", "2024-01-05", "Kinoteatr")>>])
    @@
    (client_2 :> [client_id |-> client_2, client_name |-> "Maria Sidorova",
                  age_group |-> "35-45", city |-> "Sankt-Peterburg", total_balance |-> 280000,
                  transactions |-> <<
                      Txn("t6", 15000, "Odezhda", "2024-01-16", "ZARA"),
                      Txn("t7", 7000, "Krasota", "2024-01-15", "L'Etoile"),
                      Txn("t8", 4500, "Kafe", "2024-01-12", "Starbucks"),
                      Txn("t9", 20000, "Puteshestviya", "2024-01-05", "Aeroflot"),
                      Txn("t10", 3000, "Fitnes", "2024-01-03", "World Class")>>])
    @@
    (client_3 :> [client_id |-> client_3, client_name |-> "Aleksey Kozlov",
                  age_group |-> "18-25", city |-> "Novosibirsk", total_balance |-> 50000,
                  transactions |-> <<
                      Txn("t11", 1500, "Fastfud", "2024-01-17", "McDonald's"),
                      Txn("t12", 8000, "Elektronika", "2024-01-15", "DNS"),
                      Txn("t13", 2000, "Obrazovanie", "2024-01-10", "Coursera"),
                      Txn("t14", 1000, "Transport", "2024-01-08", "Yandex.Karty"),
                      Txn("t15", 4000, "Razvlecheniya", "2024-01-05", "Steam")>>])

COMPANIES == << <<"Retail Analytics Pro">>, <<"FinTech Insights">>,
                <<"Market Research Co">>, <<"Consumer Trends Lab">> >>

AVAILABLE_DATA_TYPES == <<"category_spending", "average_bill", "spending_frequency",
                          "geography", "age_group_stats">>

(***************************************************************************)
(* Pydantic models, src/api.py:38-51.  A BaseModel without a Config keeps  *)
(* the declared fields of its keyword arguments and ignores the others.    *)
(***************************************************************************)
ConsentRequestFields == {"client_id", "company", "data_types", "is_active"}

ConsentRequest(d) == [f \in ConsentRequestFields |-> d[f]]

AggregatedData(c, t, m, s, g) ==
    [company |-> c, data_type |-> t, metrics |-> m, sample_size |-> s, generated_at |-> g]

\* client_id in client_profiles_db, lines 175 and 356
client_known(client_id) == client_id \in DOMAIN client_profiles_db

\* getattr(obj, name, default)
getattr(obj, name, default) == IF name \in DOMAIN obj THEN obj[name] ELSE default

(***************************************************************************)
(* Aggregation engine: the definition of generate_aggregated_data at       *)
(* src/api.py:353-418, which replaces the one at 242-307 when the module   *)
(* is loaded.                                                              *)
(***************************************************************************)
RECURSIVE category_spending_upto(_, _)
\* the dict built by the loop at lines 363-368 over the first n transactions
category_spending_upto(transactions, n) ==
    IF n = 0 THEN <<>>
    ELSE LET d  == category_spending_upto(transactions, n - 1)
             t  == transactions[n]
             d0 == IF ~DictHas(d, t.category) THEN DictSet(d, t.category, 0) ELSE d
         IN  DictSet(d0, t.category, DictGet(d0, t.category) + t.amount)

category_spending(transactions) == category_spending_upto(transactions, Len(transactions))

RECURSIVE sum_upto(_, _)
sum_upto(transactions, n) ==
    IF n = 0 THEN 0 ELSE sum_upto(transactions, n - 1) + transactions[n].amount

\* sum(t.amount for t in transactions)
total_amount(transactions) == sum_upto(transactions, Len(transactions))

\* round(num / den, 2) in hundredths, den > 0: nearest, ties to even.  Exact
\* for Python floats while the ties are binary fractions (den a power of two).
round2(num, den) ==
    LET q == (100 * num) \div den
        r == (100 * num) % den
    IN  IF 2 * r < den THEN q
        ELSE IF 2 * r > den THEN q + 1
        ELSE IF q % 2 = 0 THEN q ELSE q + 1

average_bill_Truncated(transactions) ==
    IF Len(transactions) > 0
    THEN (100 * total_amount(transactions)) \div Len(transactions)
    ELSE 0

\* round(total_amount / len(transactions) if transactions else 0, 2), hundredths
average_bill(transactions) ==
    IF Len(transactions) > 0
    THEN round2(total_amount(transactions), Len(transactions))
    ELSE 0

max_key_Last(d) ==
    d[CHOOSE i \in 1..Len(d) :
        /\ \A j \in 1..Len(d) : d[j].val <= d[i].val
        /\ \A j \in (i + 1)..Len(d) : d[j].val < d[i].val].key

\* max(d, key=d.get): the first key, in iteration order, with the greatest value
max_key(d) ==
    d[CHOOSE i \in 1..Len(d) :
        /\ \A j \in 1..Len(d) : d[j].val <= d[i].val
        /\ \A j \in 1..(i - 1) : d[j].val < d[i].val].key

min_amount(transactions) ==
    IF Len(transactions) > 0
    THEN CHOOSE a \in {transactions[i].amount : i \in 1..Len(transactions)} :
            \A i \in 1..Len(transactions) : a <= transactions[i].amount
    ELSE 0

max_amount(transactions) ==
    IF Len(transactions) > 0
    THEN CHOOSE a \in {transactions[i].amount : i \in 1..Len(transactions)} :
            \A i \in 1..Len(transactions) : a >= transactions[i].amount
    ELSE 0

categories_metrics(profile) ==
    LET cs == category_spending(profile.transactions)
    IN  [spending_by_category |-> cs,
         top_category |-> IF Len(cs) > 0 THEN max_key(cs) ELSE "Net dannyh",
         total_categories |-> Len(cs),
         total_spent |-> total_amount(profile.transactions)]

average_metrics(profile) ==
    [average_transaction_amount |-> average_bill(profile.transactions),
     min_amount |-> min_amount(profile.transactions),
     max_amount |-> max_amount(profile.transactions),
     total_transactions |-> Len(profile.transactions),
     total_amount |-> total_amount(profile.transactions)]

demographics_metrics_Averaged(profile) ==
    [age_group |-> profile.age_group,
     city |-> profile.city,
     average_balance |-> IF Len(profile.transactions) > 0
                         THEN profile.total_balance \div Len(profile.transactions)
                         ELSE 0,
     client_count |-> 1]

demographics_metrics(profile) ==
    [age_group |-> profile.age_group,
     city |-> profile.city,
     average_balance |-> profile.total_balance,
     client_count |-> 1]

\* f"{client_id}_{company}": the consent id (line 184, 345) and data_key (line 375)
consent_key_CompanyOnly(client_id, company) == company

consent_key(client_id, company) == client_id \o US \o company

data_key_NoClient(client_id, company) == company

data_key(client_id, company) == client_id \o US \o company

agg_key_NoKind(dk, kind) == dk

\* f"{data_key}_categories", f"{data_key}_average", f"{data_key}_demographics"
agg_key(dk, kind) == dk \o US \o <<kind>>

Kinds == {"categories", "average", "demographics"}

\* the three records generate_aggregated_data builds for a profile and a company
datasets_for(profile, company, now) ==
    [categories   |-> AggregatedData(company, "category_spending",
                                     categories_metrics(profile), 1, now),
     average      |-> AggregatedData(company, "average_bill",
                                     average_metrics(profile), 1, now),
     demographics |-> AggregatedData(company, "age_group_stats",
                                     demographics_metrics(profile), 1, now)]

\* aggregated_data_db after lines 360-418 ran with client_profile = profile
generate_for_profile(db, client_id, profile, company, now) ==
    LET ds == datasets_for(profile, company, now)
        dk == data_key(client_id, company)
        d1 == DictSet(db, agg_key(dk, "categories"), ds.categories)
        d2 == DictSet(d1, agg_key(dk, "average"), ds.average)
    IN  DictSet(d2, agg_key(dk, "demographics"), ds.demographics)

\* aggregated_data_db after generate_aggregated_data(client_id, company)
generate_aggregated_data(db, client_id, company, now) ==
    IF ~client_known(client_id)
    THEN db
    ELSE generate_for_profile(db, client_id, client_profiles_db[client_id], company, now)

(***************************************************************************)
(* Handlers.  Every handler is a coroutine of one event loop and none of   *)
(* them awaits anything that suspends (generate_aggregated_data has no     *)
(* await inside), so each runs to completion as one step.  resp is the     *)
(* last call: its handler, its argument, its HTTP status and its body.     *)
(***************************************************************************)
\* datetime.now().isoformat()
isoformat(t) == ToString(t)

Response(op, arg, status, body) == [op |-> op, arg |-> arg, status |-> status, body |-> body]

data_types_valid_FirstOnly(data_types) ==
    Len(data_types) = 0 \/ data_types[1] \in Range(AVAILABLE_DATA_TYPES)

\* the loop at lines 179-181 raises for no entry
data_types_valid(data_types) ==
    \A i \in 1..Len(data_types) : data_types[i] \in Range(AVAILABLE_DATA_TYPES)

should_aggregate_Always(consent_request) == TRUE

should_aggregate_NeedsTypes(consent_request) ==
    consent_request.is_active /\ Len(consent_request.data_types) > 0

\* if consent_request.is_active, line 194
should_aggregate(consent_request) == consent_request.is_active

\* the first entry of data_types the loop at lines 179-181 rejects
first_invalid(data_types) ==
    data_types[CHOOSE i \in 1..Len(data_types) :
        /\ data_types[i] \notin Range(AVAILABLE_DATA_TYPES)
        /\ \A j \in 1..(i - 1) : data_types[j] \in Range(AVAILABLE_DATA_TYPES)]

\* consent_request.dict() with consent_dict['last_updated'] set (lines 187-188)
with_last_updated(d, now) ==
    [f \in (DOMAIN d) \cup {"last_updated"} |-> IF f = "last_updated" THEN now ELSE d[f]]

\* consent_id.split('_')[-1]
split_last(s) ==
    LET us   == {i \in 1..Len(s) : s[i] = "_"}
        from == IF us = {} THEN 1 ELSE 1 + CHOOSE i \in us : \A j \in us : j <= i
    IN  SubSeq(s, from, Len(s))

revoke_data_key_Categories(consent_id) == consent_id \o US \o <<"categories">>

\* data_key of revoke_consent, line 211
revoke_data_key(consent_id) == consent_id \o US \o <<"aggregated">>

client_consents_All(db, client_id) ==
    [i \in 1..Len(db) |->
        [consent_id   |-> db[i].key,
         company      |-> db[i].val.company,
         data_types   |-> db[i].val.data_types,
         is_active    |-> db[i].val.is_active,
         last_updated |-> getattr(db[i].val, "last_updated", None)]]

\* the list get_client_consents returns
client_consents(db, client_id) ==
    LET mine == SelectSeq(db, LAMBDA e : e.val.client_id = client_id)
    IN  [i \in 1..Len(mine) |->
            [consent_id   |-> mine[i].key,
             company      |-> mine[i].val.company,
             data_types   |-> mine[i].val.data_types,
             is_active    |-> mine[i].val.is_active,
             last_updated |-> getattr(mine[i].val, "last_updated", None)]]

\* company_data of get_aggregated_data, lines 226-229
company_data(db, company) ==
    DictValues(SelectSeq(db, LAMBDA e : e.val.company = company))

company_known_Any(company) == TRUE

\* company in COMPANIES, line 222
company_known(company) == company \in Range(COMPANIES)

\* status and body of get_aggregated_data
aggregated_data_response(db, company) ==
    IF ~company_known(company)
    THEN [status |-> 400, body |-> [detail |-> "Kompaniya ne naydena"]]
    ELSE LET data == company_data(db, company)
         IN  IF Len(data) = 0
             THEN [status |-> 200,
                   body |-> [message |-> "Net dostupnyh dannyh dlya etoy kompanii",
                             data |-> <<>>]]
             ELSE [status |-> 200,
                   body |-> [company |-> company, total_datasets |-> Len(data),
                             data |-> data]]

UnknownClient == <<"client", "_", "9">>

ShadowCorp == <<"Shadow", "_", "Corp">>

ClientInputs == {client_1, client_2, UnknownClient}

CompanyInputs == {COMPANIES[1], ShadowCorp}

ValidDataTypeInputs == { <<>>, <<"category_spending", "geography">> }

InvalidDataTypeInputs == { <<"geography", "bogus">> }

\* requests that pass both checks, requests of an unknown client, and requests
\* of a known client with a data type outside AVAILABLE_DATA_TYPES
RequestInputs ==
    [client_id : ClientInputs \cap DOMAIN client_profiles_db, company : CompanyInputs,
     data_types : ValidDataTypeInputs, is_active : BOOLEAN]
    \cup
    [client_id : ClientInputs \ DOMAIN client_profiles_db, company : {COMPANIES[1]},
     data_types : {<<>>} \cup InvalidDataTypeInputs, is_active : {TRUE}]
    \cup
    [client_id : {client_1}, company : CompanyInputs,
     data_types : InvalidDataTypeInputs, is_active : {TRUE}]

ReadCompanyInputs == {COMPANIES[1], COMPANIES[2], ShadowCorp}

ConsentIdInputs ==
    DictKeys(consents_db) \cup {consent_key(client_1, p) : p \in CompanyInputs}

Init ==
    /\ consents_db = <<>>
    /\ aggregated_data_db = <<>>
    /\ clock = 0
    /\ resp = Response("none", <<>>, 0, <<>>)

\* POST /consent
manage_consent(consent_request) ==
    IF ~client_known(consent_request.client_id)
    THEN /\ resp' = Response("manage_consent", consent_request, 404,
                             [detail |-> "Klient ne nayden"])
         /\ UNCHANGED <<consents_db, aggregated_data_db, clock>>
    ELSE IF ~data_types_valid(consent_request.data_types)
    THEN /\ resp' = Response("manage_consent", consent_request, 400,
                             [detail |-> <<"Nevernyy tip dannyh",
                                           first_invalid(consent_request.data_types)>>])
         /\ UNCHANGED <<consents_db, aggregated_data_db, clock>>
    ELSE LET consent_id   == consent_key(consent_request.client_id, consent_request.company)
             consent_dict == with_last_updated(consent_request, isoformat(clock))
         IN  /\ clock < MaxClock
             /\ consents_db' = DictSet(consents_db, consent_id, ConsentRequest(consent_dict))
             /\ aggregated_data_db' =
                    IF should_aggregate(consent_request)
                    THEN generate_aggregated_data(aggregated_data_db,
                             consent_request.client_id, consent_request.company,
                             isoformat(clock))
                    ELSE aggregated_data_db
             /\ clock' = clock + 1
             /\ resp' = Response("manage_consent", consent_request, 200,
                                 [message |-> "Soglasie uspeshno obnovleno",
                                  consent_id |-> consent_id,
                                  consent |-> DictGet(consents_db', consent_id)])

\* DELETE /consent/{consent_id}
revoke_consent(consent_id) ==
    IF DictHas(consents_db, consent_id)
    THEN LET company  == split_last(consent_id)
             dk       == revoke_data_key(consent_id)
         IN  /\ consents_db' = DictDel(consents_db, consent_id)
             /\ aggregated_data_db' =
                    IF DictHas(aggregated_data_db, dk)
                    THEN DictDel(aggregated_data_db, dk)
                    ELSE aggregated_data_db
             /\ resp' = Response("revoke_consent", consent_id, 200,
                                 [message |-> "Soglasie polnostyu otozvano"])
             /\ UNCHANGED clock
    ELSE /\ resp' = Response("revoke_consent", consent_id, 404,
                             [detail |-> "Soglasie ne naydeno"])
         /\ UNCHANGED <<consents_db, aggregated_data_db, clock>>

\* GET /client/{client_id}/consents
get_client_consents(client_id) ==
    /\ resp' = Response("get_client_consents", client_id, 200,
                        client_consents(consents_db, client_id))
    /\ UNCHANGED <<consents_db, aggregated_data_db, clock>>

\* GET /aggregated-data/{company}
get_aggregated_data(company) ==
    /\ LET r == aggregated_data_response(aggregated_data_db, company)
       IN  resp' = Response("get_aggregated_data", company, r.status, r.body)
    /\ UNCHANGED <<consents_db, aggregated_data_db, clock>>

demo_consents ==
    << [client_id |-> client_1, company |-> COMPANIES[1],
        data_types |-> <<"category_spending", "average_bill", "age_group_stats">>,
        is_active |-> TRUE],
       [client_id |-> client_2, company |-> COMPANIES[1],
        data_types |-> <<"category_spending", "age_group_stats">>,
        is_active |-> TRUE],
       [client_id |-> client_3, company |-> COMPANIES[2],
        data_types |-> <<"category_spending", "average_bill">>,
        is_active |-> TRUE] >>

RECURSIVE demo_upto(_, _, _, _)
\* <<consents_db, aggregated_data_db>> after n rounds of the loop at lines 344-348
demo_upto(cdb, adb, now, n) ==
    IF n = 0 THEN <<cdb, adb>>
    ELSE LET prev         == demo_upto(cdb, adb, now, n - 1)
             consent_data == with_last_updated(demo_consents[n], now)
             consent_id   == consent_key(consent_data.client_id, consent_data.company)
         IN  <<DictSet(prev[1], consent_id, ConsentRequest(consent_data)),
               generate_aggregated_data(prev[2], consent_data.client_id,
                                        consent_data.company, now)>>

\* GET /demo-data
get_demo_data ==
    /\ clock < MaxClock
    /\ LET after == demo_upto(consents_db, aggregated_data_db, isoformat(clock),
                              Len(demo_consents))
       IN  /\ consents_db' = after[1]
           /\ aggregated_data_db' = after[2]
    /\ clock' = clock + 1
    /\ resp' = Response("get_demo_data", <<>>, 200,
                        [message |-> "Demo-dannye uspeshno sozdany",
                         consents_created |-> Len(demo_consents)])

Next ==
    \/ \E r \in RequestInputs : manage_consent(r)
    \/ \E k \in ConsentIdInputs : revoke_consent(k)
    \/ \E c \in ClientInputs : get_client_consents(c)
    \/ \E p \in ReadCompanyInputs : get_aggregated_data(p)
    \/ get_demo_data

Spec == Init /\ [][Next]_vars

(***************************************************************************)
(* The aggregation engine on its own: generate_aggregated_data applied to  *)
(* a profile drawn from a bounded set (lines 359-418 read nothing but the  *)
(* profile and the company).  resp.arg holds the profile, resp.body the    *)
(* company of the last call.                                               *)
(***************************************************************************)
\* Longest transaction list of a drawn profile.
MaxLen == 3

AmountInputs == {-3, 1, 2}

CategoryInputs == {"A", "B"}

TransactionInputs == {Txn("t", a, c, "2024-01-01", "m") : a \in AmountInputs, c \in CategoryInputs}

TransactionListInputs == UNION {[1..n -> TransactionInputs] : n \in 0..MaxLen}

\* the three profiles of client_profiles_db, and client_1 with every drawn list
ProfileInputs ==
    Range([i \in 1..3 |-> client_profiles_db[<<"client", "_", ToString(i)>>]])
    \cup {[client_profiles_db[client_1] EXCEPT !.transactions = t] :
              t \in TransactionListInputs}

InitAgg ==
    /\ consents_db = <<>>
    /\ aggregated_data_db = <<>>
    /\ clock = 0
    /\ \E profile \in ProfileInputs : resp = Response("none", profile, 0, <<>>)

\* generate_aggregated_data(client_id, company) with client_profile = resp.arg
aggregate(company) ==
    /\ clock < MaxClock
    /\ aggregated_data_db' = generate_for_profile(aggregated_data_db, resp.arg.client_id,
                                                  resp.arg, company, isoformat(clock))
    /\ clock' = clock + 1
    /\ resp' = Response("generate_aggregated_data", resp.arg, 200, [company |-> company])
    /\ UNCHANGED consents_db

NextAgg == \E p \in CompanyInputs : aggregate(p)

SpecAgg == InitAgg /\ [][NextAgg]_vars

(***************************************************************************)
(* Properties                                                              *)
(***************************************************************************)
Clients == DOMAIN client_profiles_db

AllCompanies == Range(COMPANIES) \cup CompanyInputs

Tables == <<consents_db, aggregated_data_db>>

IsCall(r, op, status) == r.op = op /\ r.status = status

\* the stored grants of (c, p), and the stored datasets for company p
GrantsOf(db, c, p) == {i \in 1..Len(db) : db[i].val.client_id = c /\ db[i].val.company = p}

DatasetsFor(db, p) == {i \in 1..Len(db) : db[i].val.company = p}

\* the datasets stored under the keys of (c, p)
KeyedUnder(db, c, p) ==
    {i \in 1..Len(db) : \E k \in Kinds : db[i].key = agg_key(data_key(c, p), k)}

\* the data type and the metrics that aggregation yields for each profile
ExpectedOf ==
    [c \in Clients |->
        LET ds == datasets_for(client_profiles_db[c], <<>>, "")
        IN  [k \in Kinds |-> [data_type |-> ds[k].data_type, metrics |-> ds[k].metrics]]]

\* the stored datasets of company p with the data type and the metrics that
\* aggregation yields for client c (the three profiles differ in every metric)
Attributable(db, c, p, k) ==
    {i \in 1..Len(db) :
        /\ db[i].val.company = p
        /\ db[i].val.data_type = ExpectedOf[c][k].data_type
        /\ db[i].val.metrics = ExpectedOf[c][k].metrics}

RECURSIVE AmountsFrom(_, _)
AmountsFrom(txns, i) ==
    IF i > Len(txns) THEN 0 ELSE txns[i].amount + AmountsFrom(txns, i + 1)

\* C1: after a successful revoke of the grant of (client, company) no dataset
\* keyed under that pair is stored, and when no grant names the company any
\* more, the read for that company returns no dataset.
C1_RevokeRemovesAggregates ==
    IsCall(resp, "revoke_consent", 200) =>
        \A c \in Clients, p \in AllCompanies :
            resp.arg = consent_key(c, p) =>
                /\ KeyedUnder(aggregated_data_db, c, p) = {}
                /\ (\A d \in Clients : GrantsOf(consents_db, d, p) = {})
                       => company_data(aggregated_data_db, p) = <<>>

\* C2: a successful active upsert for a known client c and a partner p, from
\* a state with no dataset stored for p, makes the read for p return exactly
\* three datasets, one of each data type, whose totals are the sum of c's
\* transaction amounts.
C2_UpsertThenRead ==
    [][\A c \in Clients, p \in Range(COMPANIES) :
        (/\ IsCall(resp', "manage_consent", 200)
         /\ resp'.arg.client_id = c
         /\ resp'.arg.company = p
         /\ resp'.arg.is_active
         /\ DatasetsFor(aggregated_data_db, p) = {})
        => LET r     == aggregated_data_response(aggregated_data_db', p)
               total == AmountsFrom(client_profiles_db[c].transactions, 1)
           IN  /\ r.status = 200
               /\ Len(r.body.data) = 3
               /\ r.body.total_datasets = 3
               /\ {r.body.data[i].data_type : i \in 1..3}
                      = {"category_spending", "average_bill", "age_group_stats"}
               /\ \A i \in 1..3 :
                      /\ r.body.data[i].data_type = "category_spending"
                             => r.body.data[i].metrics.total_spent = total
                      /\ r.body.data[i].data_type = "average_bill"
                             => r.body.data[i].metrics.total_amount = total
      ]_vars

\* the read for a partner right after the only upsert so far, an active one
C2_Witness ==
    /\ IsCall(resp, "get_aggregated_data", 200)
    /\ clock = 1
    /\ Len(consents_db) = 1
    /\ consents_db[1].val.is_active
    /\ consents_db[1].val.company = resp.arg
    /\ Len(resp.body.data) = 3

\* C3: every (client, company) has at most one stored grant and at most one
\* stored dataset of each kind, no key is stored twice, and after a successful
\* active upsert the pair has exactly one grant and exactly one dataset of
\* each kind.
C3_NoDuplicates ==
    /\ \A c \in Clients, p \in AllCompanies :
           /\ Cardinality(GrantsOf(consents_db, c, p)) <= 1
           /\ \A k \in Kinds : Cardinality(Attributable(aggregated_data_db, c, p, k)) <= 1
    /\ \A i, j \in 1..Len(consents_db) :
           consents_db[i].key = consents_db[j].key => i = j
    /\ \A i, j \in 1..Len(aggregated_data_db) :
           aggregated_data_db[i].key = aggregated_data_db[j].key => i = j
    /\ (IsCall(resp, "manage_consent", 200) /\ resp.arg.is_active) =>
           /\ Cardinality(GrantsOf(consents_db, resp.arg.client_id, resp.arg.company)) = 1
           /\ \A k \in Kinds :
                  Cardinality(Attributable(aggregated_data_db, resp.arg.client_id,
                                           resp.arg.company, k)) = 1
           /\ Cardinality(KeyedUnder(aggregated_data_db, resp.arg.client_id,
                                     resp.arg.company)) = 3

\* a successful active upsert of a grant that is not the newest key of the
\* store: the pair had a grant before this call
C3_Witness ==
    /\ IsCall(resp, "manage_consent", 200)
    /\ resp.arg.is_active
    /\ Len(consents_db) >= 2
    /\ consents_db[1].key = resp.body.consent_id
    /\ Cardinality(KeyedUnder(aggregated_data_db, resp.arg.client_id, resp.arg.company)) = 3

\* C4: an upsert of an unknown client fails with 404, an upsert of a known
\* client with a data type outside the enumerated set fails with 400, and a
\* failed upsert leaves both tables as they were and takes no timestamp.
C4_FailedUpsert ==
    [][resp'.op = "manage_consent" =>
        /\ resp'.arg.client_id \notin Clients => resp'.status = 404
        /\ (/\ resp'.arg.client_id \in Clients
            /\ \E i \in 1..Len(resp'.arg.data_types) :
                   resp'.arg.data_types[i] \notin Range(AVAILABLE_DATA_TYPES))
               => resp'.status = 400
        /\ resp'.status # 200 => UNCHANGED <<consents_db, aggregated_data_db, clock>>
      ]_vars

\* a rejected data type while both tables hold entries
C4_Witness ==
    /\ IsCall(resp, "manage_consent", 400)
    /\ Len(consents_db) > 0
    /\ Len(aggregated_data_db) > 0

\* C5: a revoke of a key that is not stored fails with 404 and changes
\* neither table; a revoke of a stored key succeeds and removes that grant
\* and no other.
C5_Revoke ==
    [][resp'.op = "revoke_consent" =>
        /\ resp'.status = IF DictHas(consents_db, resp'.arg) THEN 200 ELSE 404
        /\ resp'.status = 404 => UNCHANGED Tables
        /\ resp'.status = 200 =>
               /\ Len(consents_db') = Len(consents_db) - 1
               /\ Range(consents_db') = {e \in Range(consents_db) : e.key # resp'.arg}
      ]_vars

\* a successful revoke that left another grant of the same client stored
C5_Witness ==
    /\ IsCall(resp, "revoke_consent", 200)
    /\ \E i \in 1..Len(consents_db) :
           SubSeq(consents_db[i].key, 1, 3) = SubSeq(resp.arg, 1, 3)

\* C6: every stored grant and every stored dataset names a partner company.
C6_OnlyPartnerCompanies ==
    /\ \A i \in 1..Len(consents_db) : consents_db[i].val.company \in Range(COMPANIES)
    /\ \A i \in 1..Len(aggregated_data_db) :
           aggregated_data_db[i].val.company \in Range(COMPANIES)

\* C7: in every state a reader can observe, an active grant of (client,
\* company) has its three datasets, and a pair without a grant has no
\* dataset stored under its keys.
C7_GrantsAndAggregatesAgree ==
    \A c \in Clients, p \in AllCompanies :
        /\ (\E i \in GrantsOf(consents_db, c, p) : consents_db[i].val.is_active)
               => Cardinality(KeyedUnder(aggregated_data_db, c, p)) = 3
        /\ GrantsOf(consents_db, c, p) = {}
               => KeyedUnder(aggregated_data_db, c, p) = {}

\* C8: after a successful upsert the stored grant carries the time of the
\* upsert as last_updated and the listing of the client reports it.
C8_LastUpdatedStamped ==
    IsCall(resp, "manage_consent", 200) =>
        /\ getattr(DictGet(consents_db, resp.body.consent_id), "last_updated", None)
               = isoformat(clock - 1)
        /\ \A e \in Range(client_consents(consents_db, resp.arg.client_id)) :
               e.consent_id = resp.body.consent_id => e.last_updated = isoformat(clock - 1)

\* C9: the read fails with 400 for a company outside the partner list
\* whatever is stored, returns status 200 with an empty data sequence and a
\* message for a partner without stored datasets, and changes neither table.
C9_Read ==
    [][resp'.op = "get_aggregated_data" =>
        /\ UNCHANGED Tables
        /\ resp'.arg \notin Range(COMPANIES) => resp'.status = 400
        /\ (resp'.arg \in Range(COMPANIES) /\ DatasetsFor(aggregated_data_db, resp'.arg) = {})
               => /\ resp'.status = 200
                  /\ resp'.body.data = <<>>
                  /\ "message" \in DOMAIN resp'.body
      ]_vars

\* the read is refused for a company outside the list that has datasets stored
C9_Witness ==
    /\ IsCall(resp, "get_aggregated_data", 400)
    /\ DatasetsFor(aggregated_data_db, resp.arg) # {}

\* C10: a successful read for p returns the stored datasets of company p, each
\* once: three for every client with datasets under the keys of (client, p),
\* hence at least three for every client with an active grant for p.
C10_ReadReturnsAll ==
    IsCall(resp, "get_aggregated_data", 200) =>
        LET p    == resp.arg
            data == resp.body.data
            mine == DatasetsFor(aggregated_data_db, p)
        IN  /\ Len(data) = Cardinality(mine)
            /\ \A i \in mine : \E j \in 1..Len(data) : data[j] = aggregated_data_db[i].val
            /\ \A j \in 1..Len(data) : \E i \in mine : data[j] = aggregated_data_db[i].val
            /\ Len(data) = 3 * Cardinality({c \in Clients :
                                   KeyedUnder(aggregated_data_db, c, p) # {}})
            /\ Len(data) >= 3 * Cardinality({c \in Clients :
                                   \E i \in GrantsOf(consents_db, c, p) :
                                       consents_db[i].val.is_active})
            /\ \A c \in Clients :
                   (\E i \in GrantsOf(consents_db, c, p) : consents_db[i].val.is_active)
                       => \A k \in Kinds :
                              \E j \in 1..Len(data) :
                                  data[j].metrics = ExpectedOf[c][k].metrics

\* the read returns six datasets while two clients hold an active grant for p
C10_Witness ==
    /\ IsCall(resp, "get_aggregated_data", 200)
    /\ Len(resp.body.data) = 6
    /\ Cardinality({c \in Clients :
           \E i \in GrantsOf(consents_db, c, resp.arg) : consents_db[i].val.is_active}) = 2

\* company strings, with and without the delimiter, among them strings that
\* end like a dataset key or begin like the tail of a client id
KeyCompanies ==
    AllCompanies \cup { <<"Corp">>, <<"Corp", "_", "categories">>,
                        <<"Corp", "_", "average">>, <<"2", "_", "Corp">>,
                        <<"2">>, <<"aggregated">> }

\* the stored grants of (c, p) and the datasets stored under its keys, as sets
GrantEntries(db, c, p) == {db[i] : i \in GrantsOf(db, c, p)}

DatasetEntries(db, c, p) == {db[i] : i \in KeyedUnder(db, c, p)}

\* no two (client, company) share a consent key, and no two (client, company,
\* kind) share a dataset key
KeysInjective ==
    \A c1, c2 \in Clients, p1, p2 \in KeyCompanies :
        /\ consent_key(c1, p1) = consent_key(c2, p2) => (c1 = c2 /\ p1 = p2)
        /\ \A k1, k2 \in Kinds :
               agg_key(data_key(c1, p1), k1) = agg_key(data_key(c2, p2), k2)
                   => (c1 = c2 /\ p1 = p2 /\ k1 = k2)

\* C11: distinct (client, company) pairs of the fixed clients have distinct
\* consent keys and distinct dataset keys, whatever delimiters the company
\* holds, and a successful upsert or revoke of one pair leaves the grant and
\* the datasets of every other pair as they were.
C11_KeysDoNotCollide ==
    [][/\ KeysInjective
       /\ \A c \in Clients, p \in AllCompanies :
              (\/ /\ IsCall(resp', "manage_consent", 200)
                  /\ <<resp'.arg.client_id, resp'.arg.company>> # <<c, p>>
               \/ /\ IsCall(resp', "revoke_consent", 200)
                  /\ \E c0 \in Clients, p0 \in AllCompanies :
                         resp'.arg = consent_key(c0, p0) /\ <<c0, p0>> # <<c, p>>)
              => /\ GrantEntries(consents_db', c, p) = GrantEntries(consents_db, c, p)
                 /\ DatasetEntries(aggregated_data_db', c, p)
                        = DatasetEntries(aggregated_data_db, c, p)
      ]_vars

\* a successful upsert while another client holds a grant and datasets for
\* the same company
C11_Witness ==
    /\ IsCall(resp, "manage_consent", 200)
    /\ \E c \in Clients \ {resp.arg.client_id} :
           /\ GrantsOf(consents_db, c, resp.arg.company) # {}
           /\ Cardinality(KeyedUnder(aggregated_data_db, c, resp.arg.company)) = 3

\* C12: after a successful upsert the grant stored for the pair has exactly
\* the data types and the active flag of that call, whatever was stored for
\* the pair before.
C12_UpsertReplaces ==
    [][IsCall(resp', "manage_consent", 200) =>
        \A e \in GrantEntries(consents_db', resp'.arg.client_id, resp'.arg.company) :
            /\ e.val.data_types = resp'.arg.data_types
            /\ e.val.is_active = resp'.arg.is_active
            /\ resp'.body.consent.data_types = resp'.arg.data_types
            /\ resp'.body.consent.is_active = resp'.arg.is_active
      ]_vars

\* client_1's grant for the first partner, created by the demo data with three
\* data types, was upserted again with other data types
C12_Witness ==
    /\ IsCall(resp, "manage_consent", 200)
    /\ resp.arg.client_id = client_1
    /\ resp.arg.company = COMPANIES[1]
    /\ Len(consents_db) = 3
    /\ consents_db[1].key = resp.body.consent_id
    /\ consents_db[1].val.data_types = resp.arg.data_types
    /\ consents_db[1].val.data_types # demo_consents[1].data_types
    /\ consents_db[2].val.data_types = demo_consents[2].data_types
    /\ consents_db[3].val.data_types = demo_consents[3].data_types

\* C13: every stored grant names a client of client_profiles_db and only data
\* types of AVAILABLE_DATA_TYPES.
C13_GrantsValid ==
    \A i \in 1..Len(consents_db) :
        /\ consents_db[i].val.client_id \in DOMAIN client_profiles_db
        /\ \A j \in 1..Len(consents_db[i].val.data_types) :
               consents_db[i].val.data_types[j] \in Range(AVAILABLE_DATA_TYPES)

\* grants of the demo data and a grant of an upsert are stored together, and
\* an upsert with a data type outside the set was just refused
C13_Witness ==
    /\ IsCall(resp, "manage_consent", 400)
    /\ Len(consents_db) = 4
    /\ \E i \in 1..Len(consents_db) : consents_db[i].val.company = ShadowCorp

\* C14: the listing of a client answers 200 with one summary for every stored
\* grant of that client and no other summary, each with the company, the data
\* types and the active flag of its grant; it is empty when the client has no
\* grant, and it changes neither table.
C14_Listing ==
    [][resp'.op = "get_client_consents" =>
        LET mine == {i \in 1..Len(consents_db) : consents_db[i].val.client_id = resp'.arg}
            list == resp'.body
        IN  /\ UNCHANGED Tables
            /\ resp'.status = 200
            /\ Len(list) = Cardinality(mine)
            /\ \A i \in mine : \E j \in 1..Len(list) :
                   /\ list[j].consent_id = consents_db[i].key
                   /\ list[j].company = consents_db[i].val.company
                   /\ list[j].data_types = consents_db[i].val.data_types
                   /\ list[j].is_active = consents_db[i].val.is_active
            /\ \A j \in 1..Len(list) : \E i \in mine : list[j].consent_id = consents_db[i].key
            /\ mine = {} => list = <<>>
      ]_vars

\* a listing of two grants while another client holds a grant too
C14_Witness ==
    /\ IsCall(resp, "get_client_consents", 200)
    /\ Len(resp.body) = 2
    /\ Len(consents_db) > 2

\* the metrics stored by the last generate_aggregated_data call for a kind
LastMetrics(kind) ==
    DictGet(aggregated_data_db,
            agg_key(data_key(resp.arg.client_id, resp.body.company), kind)).metrics

Abs(x) == IF x < 0 THEN -x ELSE x

AmountsOf(txns) == {txns[i].amount : i \in 1..Len(txns)}

\* the rest of C15, shared by the statement as claimed and as amended
AverageBillRest(m, txns) ==
    /\ m.total_transactions = Len(txns)
    /\ m.total_amount = AmountsFrom(txns, 1)
    /\ Len(txns) > 0 =>
           /\ m.min_amount \in AmountsOf(txns)
           /\ m.max_amount \in AmountsOf(txns)
           /\ \A a \in AmountsOf(txns) : m.min_amount <= a /\ a <= m.max_amount
    /\ Len(txns) = 0 =>
           /\ m.average_transaction_amount = 0
           /\ m.min_amount = 0
           /\ m.max_amount = 0
    /\ [i \in 1..Len(txns) |-> txns[i].amount] = <<2500, 5000, 12000, 3500, 8000>> =>
           /\ m.average_transaction_amount = 620000
           /\ m.max_amount = 12000
           /\ m.min_amount = 2500
           /\ m.total_amount = 31000

\* C15 as claimed: for a non-empty list the average times the number of
\* transactions is the total (a floating-point tolerance is far below one
\* hundredth, so in hundredths the two are equal); min, max and count are the
\* least amount, the greatest amount and the length; an empty list gives 0.
C15_MeanTimesCountIsTotal ==
    IsCall(resp, "generate_aggregated_data", 200) =>
        LET m    == LastMetrics("average")
            txns == resp.arg.transactions
        IN  /\ Len(txns) > 0 =>
                   m.average_transaction_amount * m.total_transactions = 100 * m.total_amount
            /\ AverageBillRest(m, txns)

\* C15 as amended: the average, rounded to two decimals, times the number of
\* transactions differs from the total by at most 0.005 per transaction; the
\* rest as claimed.
C15_MeanWithinRounding ==
    IsCall(resp, "generate_aggregated_data", 200) =>
        LET m    == LastMetrics("average")
            txns == resp.arg.transactions
        IN  /\ Len(txns) > 0 =>
                   2 * Abs(m.average_transaction_amount * m.total_transactions
                           - 100 * m.total_amount) <= m.total_transactions
            /\ AverageBillRest(m, txns)

\* an average that two decimals cannot hold, over three transactions
C15_Witness ==
    /\ IsCall(resp, "generate_aggregated_data", 200)
    /\ Len(resp.arg.transactions) = 3
    /\ (100 * AmountsFrom(resp.arg.transactions, 1)) % 3 # 0
    /\ DictHas(aggregated_data_db,
               agg_key(data_key(resp.arg.client_id, resp.body.company), "average"))

CategoriesOf(txns) == {txns[i].category : i \in 1..Len(txns)}

\* the sum of the amounts of category c, and the place of its first transaction
SpentOn(txns, c) == AmountsFrom(SelectSeq(txns, LAMBDA t : t.category = c), 1)

FirstOf(txns, c) == CHOOSE i \in 1..Len(txns) :
    txns[i].category = c /\ \A j \in 1..(i - 1) : txns[j].category # c

\* C16: spending_by_category has one entry for every category of the
\* transactions, holding the sum of its amounts; total_categories counts the
\* categories; total_spent is the sum of the entries; top_category has the
\* greatest sum and, among the categories with that sum, the earliest first
\* transaction; without transactions it is the placeholder.
C16_CategorySpend ==
    IsCall(resp, "generate_aggregated_data", 200) =>
        LET m    == LastMetrics("categories")
            txns == resp.arg.transactions
            d    == m.spending_by_category
        IN  /\ DictKeys(d) = CategoriesOf(txns)
            /\ Len(d) = Cardinality(CategoriesOf(txns))
            /\ \A i \in 1..Len(d) : d[i].val = SpentOn(txns, d[i].key)
            /\ m.total_categories = Cardinality(CategoriesOf(txns))
            /\ m.total_spent = AmountsFrom([i \in 1..Len(d) |-> [amount |-> d[i].val]], 1)
            /\ Len(txns) = 0 => m.top_category = "Net dannyh"
            /\ Len(txns) > 0 =>
                   /\ m.top_category \in CategoriesOf(txns)
                   /\ \A c \in CategoriesOf(txns) :
                          /\ SpentOn(txns, c) <= SpentOn(txns, m.top_category)
                          /\ (c # m.top_category
                              /\ SpentOn(txns, c) = SpentOn(txns, m.top_category))
                                 => FirstOf(txns, m.top_category) < FirstOf(txns, c)

\* two categories with the same sum, one of them over two transactions
C16_Witness ==
    /\ IsCall(resp, "generate_aggregated_data", 200)
    /\ Len(resp.arg.transactions) = 3
    /\ Cardinality(CategoriesOf(resp.arg.transactions)) = 2
    /\ SpentOn(resp.arg.transactions, "A") = SpentOn(resp.arg.transactions, "B")
    /\ LastMetrics("categories").top_category = resp.arg.transactions[1].category

\* C17: a successful upsert with is_active false stores the grant as inactive
\* and leaves the aggregate table as it was, so the read of every company
\* answers as before and the datasets of the pair stay stored.
C17_DeactivationKeepsAggregates ==
    [][(IsCall(resp', "manage_consent", 200) /\ ~resp'.arg.is_active) =>
        /\ aggregated_data_db' = aggregated_data_db
        /\ \A p \in ReadCompanyInputs :
               aggregated_data_response(aggregated_data_db', p)
                   = aggregated_data_response(aggregated_data_db, p)
        /\ Cardinality(GrantsOf(consents_db', resp'.arg.client_id, resp'.arg.company)) = 1
        /\ \A e \in GrantEntries(consents_db', resp'.arg.client_id, resp'.arg.company) :
               ~e.val.is_active
      ]_vars

\* an inactive grant whose pair still has its three datasets, right after the
\* upsert that deactivated it
C17_Witness ==
    /\ IsCall(resp, "manage_consent", 200)
    /\ ~resp.arg.is_active
    /\ resp.arg.company \in Range(COMPANIES)
    /\ Cardinality(KeyedUnder(aggregated_data_db, resp.arg.client_id, resp.arg.company)) = 3
    /\ Len(company_data(aggregated_data_db, resp.arg.company)) >= 3

\* C18: after a successful active upsert the pair has, whatever data types the
\* grant permits and whatever was stored before, the same three datasets:
\* category_spending, average_bill and age_group_stats with the metrics of the
\* client's profile, the company of the call and the time of the call.
C18_DatasetsIgnoreDataTypes ==
    [][(IsCall(resp', "manage_consent", 200) /\ resp'.arg.is_active) =>
        LET c  == resp'.arg.client_id
            p  == resp'.arg.company
            ds == DatasetEntries(aggregated_data_db', c, p)
        IN  /\ Cardinality(ds) = 3
            /\ \A k \in Kinds :
                   \E e \in ds :
                       /\ e.key = agg_key(data_key(c, p), k)
                       /\ e.val.company = p
                       /\ e.val.data_type = ExpectedOf[c][k].data_type
                       /\ e.val.metrics = ExpectedOf[c][k].metrics
                       /\ e.val.generated_at = isoformat(clock)
            /\ {e.val.data_type : e \in ds}
                   = {"category_spending", "average_bill", "age_group_stats"}
      ]_vars

\* an active grant that permits no data type and has its three datasets
C18_Witness ==
    /\ IsCall(resp, "manage_consent", 200)
    /\ resp.arg.is_active
    /\ resp.arg.data_types = <<>>
    /\ Cardinality(KeyedUnder(aggregated_data_db, resp.arg.client_id, resp.arg.company)) = 3

\* C19: every stored dataset has sample_size 1, and the demographics dataset
\* of every (client, company) holds the age group, the city and the balance
\* of that client's profile and client_count 1.
C19_SampleSizeAndDemographics ==
    /\ \A i \in 1..Len(aggregated_data_db) : aggregated_data_db[i].val.sample_size = 1
    /\ \A c \in Clients, p \in AllCompanies :
           \A i \in 1..Len(aggregated_data_db) :
               aggregated_data_db[i].key = agg_key(data_key(c, p), "demographics") =>
                   /\ aggregated_data_db[i].val.data_type = "age_group_stats"
                   /\ aggregated_data_db[i].val.metrics =
                          [age_group       |-> client_profiles_db[c].age_group,
                           city            |-> client_profiles_db[c].city,
                           average_balance |-> client_profiles_db[c].total_balance,
                           client_count    |-> 1]
    /\ \A i \in 1..Len(aggregated_data_db) :
           aggregated_data_db[i].val.data_type = "age_group_stats" =>
               \E c \in Clients, p \in AllCompanies :
                   aggregated_data_db[i].key = agg_key(data_key(c, p), "demographics")

\* demographics datasets of all three clients are stored
C19_Witness ==
    \A c \in Clients :
        \E p \in AllCompanies :
            DictHas(aggregated_data_db, agg_key(data_key(c, p), "demographics"))

\* C20: for every (client, company) the aggregate table holds all three
\* dataset kinds or none, and it holds no other entry.
C20_CompleteTriples ==
    /\ \A c \in Clients, p \in AllCompanies :
           Cardinality(KeyedUnder(aggregated_data_db, c, p)) \in {0, 3}
    /\ \A i \in 1..Len(aggregated_data_db) :
           \E c \in Clients, p \in AllCompanies : i \in KeyedUnder(aggregated_data_db, c, p)

\* after a successful revoke one pair has its three datasets and another none
C20_Witness ==
    /\ IsCall(resp, "revoke_consent", 200)
    /\ \E c \in Clients, p \in AllCompanies :
           Cardinality(KeyedUnder(aggregated_data_db, c, p)) = 3
    /\ \E c \in Clients, p \in CompanyInputs :
           KeyedUnder(aggregated_data_db, c, p) = {}
    /\ Len(consents_db) > 0

====
